---- MODULE Spec2Model ----
(***************************************************************************)
(* Model of Obramais.py: a Streamlit script that builds a bill of          *)
(* materials in st.session_state["items"], shows a summary with totals and *)
(* exports the table to Excel, PDF, CSV and DOCX.                          *)
(*                                                                         *)
(* Numbers are exact rationals n/d in lowest terms (d > 0).  Python floats *)
(* are modelled by their exact decimal value; round() and the ".2f" format *)
(* round to the nearest multiple of 10^-k, ties to even.  On an exact      *)
(* decimal tie the binary representation of the float decides in Python;   *)
(* the numbers drawn below never round on a tie.  Column names and texts   *)
(* are written in ASCII.                                                   *)
(***************************************************************************)
EXTENDS Integers, Sequences, FiniteSets, TLC

VARIABLES
    session_state,   \* st.session_state: a mapping, with or without the key "items"
    pc,              \* position of the script run
    projeto, cliente, responsavel,                  \* header text inputs
    material, medida, cobertura, unidade,           \* the "add material" form
    desperdicio, preco_unit, especificacoes,
    clicked,         \* value of st.button("Adicionar Material") in this run
    df,              \* the DataFrame read by df_resumo() in this run
    custos_extra,    \* {"mao_obra": ..., "impostos": ...}, or <<>> when not read
    screen,          \* what the run has written on the page
    downloads,       \* the bytes handed to the four download buttons
    qtd_ret          \* value returned by a direct call of calc_qtd_necessaria

vars == << session_state, pc, projeto, cliente, responsavel, material, medida,
           cobertura, unidade, desperdicio, preco_unit, especificacoes, clicked,
           df, custos_extra, screen, downloads, qtd_ret >>

----------------------------------------------------------------------------
(* Bounds of the model *)

MaxItems == 2

----------------------------------------------------------------------------
(* Values: every Python value of the model is a record of one shape *)

RECURSIVE GCD(_, _)
GCD(a, b) == IF b = 0 THEN a ELSE GCD(b, a % b)

Abs(n) == IF n < 0 THEN -n ELSE n

\* the float n/d (d # 0), kept in lowest terms with a positive denominator
Num(n, d) ==
    LET g == GCD(Abs(n), Abs(d))
        s == IF d < 0 THEN -1 ELSE 1
    IN  [t |-> "num", n |-> (s * n) \div g, d |-> (s * d) \div g, s |-> ""]

Text(s) == [t |-> "str", n |-> 0, d |-> 1, s |-> s]

None == [t |-> "none", n |-> 0, d |-> 1, s |-> ""]

\* the missing-value marker pandas puts in a cell no dict provides
NaN == [t |-> "nan", n |-> 0, d |-> 1, s |-> ""]

\* an empty spreadsheet cell
Blank == [t |-> "blank", n |-> 0, d |-> 1, s |-> ""]

\* the outcome of an expression that raises ZeroDivisionError
ZeroDivisionError == [t |-> "raise", n |-> 0, d |-> 1, s |-> "ZeroDivisionError"]

Raises(x) == x.t = "raise"

Zero == Num(0, 1)

\* float arithmetic; an operand that raised makes the whole expression raise
Add(x, y) == IF Raises(x) THEN x ELSE IF Raises(y) THEN y
             ELSE Num(x.n * y.d + y.n * x.d, x.d * y.d)
Mul(x, y) == IF Raises(x) THEN x ELSE IF Raises(y) THEN y
             ELSE Num(x.n * y.n, x.d * y.d)
Div(x, y) == IF Raises(x) THEN x ELSE IF Raises(y) THEN y
             ELSE IF y.n = 0 THEN ZeroDivisionError
             ELSE Num(x.n * y.d, x.d * y.n)
Leq(x, y) == x.n * y.d <= y.n * x.d

\* Python truthiness of a number or None, as used by "x or 0"
Or0(x) == IF x.t = "none" \/ x.n = 0 THEN Zero ELSE x

RECURSIVE Pow10(_)
Pow10(k) == IF k = 0 THEN 1 ELSE 10 * Pow10(k - 1)

\* round(x, k): nearest multiple of 10^-k, ties to the even multiple
round(x, k) ==
    IF Raises(x) THEN x ELSE
    LET p == x.n * Pow10(k)
        q == p \div x.d
        r == p % x.d
        up == IF 2 * r > x.d THEN TRUE
              ELSE IF 2 * r < x.d THEN FALSE
              ELSE q % 2 = 1
    IN  Num(IF up THEN q + 1 ELSE q, Pow10(k))

\* f"{x:.2f}": the number printed with two decimals
Fmt2f(x) == [t |-> "fmt", n |-> round(x, 2).n, d |-> round(x, 2).d, s |-> ""]

\* str(v), as used for the cells of the PDF and DOCX tables
str(v) ==
    IF v.t = "nan" THEN Text("nan")
    ELSE IF v.t = "none" THEN Text("None")
    ELSE IF v.t = "num" THEN [t |-> "repr", n |-> v.n, d |-> v.d, s |-> ""]
    ELSE v

\* "x or '-'" on a text
OrDash(s) == IF s = "" THEN "-" ELSE s

----------------------------------------------------------------------------
(* Python dicts keep insertion order: a sequence of key/value pairs *)

Keys(dict) == [i \in 1..Len(dict) |-> dict[i].k]

HasKey(dict, key) == \E i \in 1..Len(dict) : dict[i].k = key

Get(dict, key) == dict[CHOOSE i \in 1..Len(dict) : dict[i].k = key].v

\* dict[key] = value
SetKey(dict, key, value) ==
    IF HasKey(dict, key)
    THEN [i \in 1..Len(dict) |->
            IF dict[i].k = key THEN [k |-> key, v |-> value] ELSE dict[i]]
    ELSE Append(dict, [k |-> key, v |-> value])

\* dict.update(other)
RECURSIVE Update(_, _)
Update(dict, other) ==
    IF other = <<>> THEN dict
    ELSE Update(SetKey(dict, Head(other).k, Head(other).v), Tail(other))

----------------------------------------------------------------------------
(* Utility functions *)

\* variant: the guard tests "< 0", so a coverage of 0 reaches the division
calc_qtd_guard_lt(m, c, w) ==
    IF ~Leq(Zero, c) THEN Zero
    ELSE LET fator == Add(Num(1, 1), Div(Or0(w), Num(100, 1)))
         IN  Mul(Div(m, c), fator)

\* variant: the waste factor lacks the "1 +"
calc_qtd_no_one(m, c, w) ==
    IF Leq(c, Zero) THEN Zero
    ELSE LET fator == Div(Or0(w), Num(100, 1))
         IN  Mul(Div(m, c), fator)

calc_qtd_necessaria(m, c, w) ==
    IF Leq(c, Zero) THEN Zero
    ELSE LET fator == Add(Num(1, 1), Div(Or0(w), Num(100, 1)))
         IN  Mul(Div(m, c), fator)

\* variant: the subtotal is taken from the quantity before it is rounded
NewItem_unrounded(mat, m, c, u, w, p, espec) ==
    LET qtd      == round(calc_qtd_necessaria(m, c, w), 3)
        subtotal == round(Mul(Or0(p), calc_qtd_necessaria(m, c, w)), 2)
        item == << [k |-> "Material",              v |-> Text(mat)],
                   [k |-> "Medida",                v |-> m],
                   [k |-> "Cobertura por Unidade", v |-> c],
                   [k |-> "Unidade",               v |-> Text(u)],
                   [k |-> "Desperdicio (%)",       v |-> w],
                   [k |-> "Qtd Necessaria",        v |-> qtd],
                   [k |-> "Preco Unitario",        v |-> Or0(p)],
                   [k |-> "Subtotal",              v |-> subtotal] >>
    IN  Update(item, espec)

\* the item add_item builds and appends
NewItem(mat, m, c, u, w, p, espec) ==
    LET qtd      == round(calc_qtd_necessaria(m, c, w), 3)
        subtotal == round(Mul(Or0(p), qtd), 2)
        item == << [k |-> "Material",              v |-> Text(mat)],
                   [k |-> "Medida",                v |-> m],
                   [k |-> "Cobertura por Unidade", v |-> c],
                   [k |-> "Unidade",               v |-> Text(u)],
                   [k |-> "Desperdicio (%)",       v |-> w],
                   [k |-> "Qtd Necessaria",        v |-> qtd],
                   [k |-> "Preco Unitario",        v |-> Or0(p)],
                   [k |-> "Subtotal",              v |-> subtotal] >>
    IN  Update(item, espec)

\* variant: the list is replaced by a list of the new item alone
add_item_reset(state, mat, m, c, u, w, p, espec) ==
    [state EXCEPT !["items"] = << NewItem(mat, m, c, u, w, p, espec) >>]

\* the session state after add_item(...); when the computation of the
\* quantity raises, the exception leaves add_item before the append
add_item(state, mat, m, c, u, w, p, espec) ==
    IF Raises(calc_qtd_necessaria(m, c, w)) THEN state
    ELSE [state EXCEPT !["items"] = Append(@, NewItem(mat, m, c, u, w, p, espec))]

----------------------------------------------------------------------------
(* pandas DataFrame: ordered column names and one list of cells per row *)

\* pd.DataFrame()
EmptyFrame == [columns |-> <<>>, rows |-> <<>>]

\* the keys of dict that are not yet in cols, appended in dict order
RECURSIVE AddColumns(_, _)
AddColumns(cols, keys) ==
    IF keys = <<>> THEN cols
    ELSE IF \E i \in 1..Len(cols) : cols[i] = Head(keys)
         THEN AddColumns(cols, Tail(keys))
         ELSE AddColumns(Append(cols, Head(keys)), Tail(keys))

\* column names of pd.DataFrame(data): every key, by first appearance
RECURSIVE Columns(_)
Columns(data) ==
    IF data = <<>> THEN <<>>
    ELSE AddColumns(Columns(SubSeq(data, 1, Len(data) - 1)), Keys(data[Len(data)]))

\* pd.DataFrame(data) for a list of dicts: a cell no dict provides is NaN
DataFrame(data) ==
    LET cols == Columns(data)
    IN  [columns |-> cols,
         rows |-> [i \in 1..Len(data) |->
                     [j \in 1..Len(cols) |->
                        IF HasKey(data[i], cols[j]) THEN Get(data[i], cols[j])
                        ELSE NaN]]]

\* variant: no table is ever taken as empty
Empty_never(frame) == FALSE

\* df.empty
Empty(frame) == Len(frame.columns) = 0 \/ Len(frame.rows) = 0

\* "name in df.columns"
HasColumn(frame, name) == \E j \in 1..Len(frame.columns) : frame.columns[j] = name

ColumnIndex(frame, name) == CHOOSE j \in 1..Len(frame.columns) : frame.columns[j] = name

\* df[name].sum(): NaN cells are skipped
RECURSIVE SumCells(_, _)
SumCells(rows, j) ==
    IF rows = <<>> THEN Zero
    ELSE LET c == Head(rows)[j]
         IN  Add(IF c.t = "nan" THEN Zero ELSE c, SumCells(Tail(rows), j))

ColumnSum(frame, name) == SumCells(frame.rows, ColumnIndex(frame, name))

\* st.session_state.get("items", [])
GetItems(state) == IF "items" \in DOMAIN state THEN state["items"] ELSE <<>>

df_resumo(state) ==
    LET data == GetItems(state)
    IN  IF data # <<>> THEN DataFrame(data) ELSE EmptyFrame

\* dict.get(key, default)
GetOr(dict, key, default) == IF HasKey(dict, key) THEN Get(dict, key) ELSE default

----------------------------------------------------------------------------
(* Exporters.  The logical content of the produced bytes: an optional title *)
(* block, the header row, the data rows and an optional totals block.      *)

\* a cell written by DataFrame.to_excel: NaN becomes an empty cell
ExcelCell(v) == IF v.t = "nan" THEN Blank ELSE v

\* a field written by DataFrame.to_csv: NaN becomes the empty text
CsvField(v) == IF v.t = "nan" THEN Text("") ELSE str(v)

make_excel_bytes(frame) ==
    [title  |-> <<>>,
     header |-> frame.columns,
     rows   |-> [i \in 1..Len(frame.rows) |->
                   [j \in 1..Len(frame.columns) |-> ExcelCell(frame.rows[i][j])]],
     totals |-> <<>>]

make_csv_bytes(frame) ==
    [title  |-> <<>>,
     header |-> frame.columns,
     rows   |-> [i \in 1..Len(frame.rows) |->
                   [j \in 1..Len(frame.columns) |-> CsvField(frame.rows[i][j])]],
     totals |-> <<>>]

\* variant: client and responsible are printed without the "-" fallback
make_pdf_bytes_raw(frame, proj, cli, resp, custos, now) ==
    LET total == IF HasColumn(frame, "Subtotal") THEN ColumnSum(frame, "Subtotal") ELSE Zero
        mao   == GetOr(custos, "mao_obra", Zero)
        imp   == GetOr(custos, "impostos", Zero)
        total_final == Add(Add(total, mao), imp)
        story == [title  |-> << [titulo |-> proj, cliente |-> cli,
                                 responsavel |-> resp, data |-> now] >>,
                  header |-> <<>>, rows |-> <<>>, totals |-> <<>>]
    IN  IF ~Empty(frame)
        THEN [story EXCEPT
                !.header = frame.columns,
                !.rows   = [i \in 1..Len(frame.rows) |->
                              [j \in 1..Len(frame.columns) |-> str(frame.rows[i][j])]],
                !.totals = << [materiais |-> Fmt2f(total), mao_obra |-> Fmt2f(mao),
                               impostos |-> Fmt2f(imp), total |-> Fmt2f(total_final)] >>]
        ELSE story

make_pdf_bytes(frame, proj, cli, resp, custos, now) ==
    LET total == IF HasColumn(frame, "Subtotal") THEN ColumnSum(frame, "Subtotal") ELSE Zero
        mao   == GetOr(custos, "mao_obra", Zero)
        imp   == GetOr(custos, "impostos", Zero)
        total_final == Add(Add(total, mao), imp)
        story == [title  |-> << [titulo |-> proj, cliente |-> OrDash(cli),
                                 responsavel |-> OrDash(resp), data |-> now] >>,
                  header |-> <<>>, rows |-> <<>>, totals |-> <<>>]
    IN  IF ~Empty(frame)
        THEN [story EXCEPT
                !.header = frame.columns,
                !.rows   = [i \in 1..Len(frame.rows) |->
                              [j \in 1..Len(frame.columns) |-> str(frame.rows[i][j])]],
                !.totals = << [materiais |-> Fmt2f(total), mao_obra |-> Fmt2f(mao),
                               impostos |-> Fmt2f(imp), total |-> Fmt2f(total_final)] >>]
        ELSE story

\* variant: the final total leaves the taxes out
make_docx_bytes_no_tax(frame, proj, cli, resp, custos, now) ==
    LET heading == [title  |-> << [titulo |-> proj, cliente |-> OrDash(cli),
                                   responsavel |-> OrDash(resp), data |-> now] >>,
                    header |-> <<>>, rows |-> <<>>, totals |-> <<>>]
        total == IF HasColumn(frame, "Subtotal") THEN ColumnSum(frame, "Subtotal") ELSE Zero
        mao   == GetOr(custos, "mao_obra", Zero)
        imp   == GetOr(custos, "impostos", Zero)
        total_final == Add(total, mao)
    IN  IF ~Empty(frame)
        THEN [heading EXCEPT
                !.header = frame.columns,
                !.rows   = [r \in 1..Len(frame.rows) |->
                              [i \in 1..Len(frame.rows[r]) |-> str(frame.rows[r][i])]],
                !.totals = << [materiais |-> Fmt2f(total), mao_obra |-> Fmt2f(mao),
                               impostos |-> Fmt2f(imp), total |-> Fmt2f(total_final)] >>]
        ELSE heading

\* variant: the table and the totals are written without testing df.empty
make_docx_bytes_unguarded(frame, proj, cli, resp, custos, now) ==
    LET total == IF HasColumn(frame, "Subtotal") THEN ColumnSum(frame, "Subtotal") ELSE Zero
        mao   == GetOr(custos, "mao_obra", Zero)
        imp   == GetOr(custos, "impostos", Zero)
        total_final == Add(Add(total, mao), imp)
    IN  [title  |-> << [titulo |-> proj, cliente |-> OrDash(cli),
                        responsavel |-> OrDash(resp), data |-> now] >>,
         header |-> frame.columns,
         rows   |-> [r \in 1..Len(frame.rows) |->
                       [i \in 1..Len(frame.rows[r]) |-> str(frame.rows[r][i])]],
         totals |-> << [materiais |-> Fmt2f(total), mao_obra |-> Fmt2f(mao),
                        impostos |-> Fmt2f(imp), total |-> Fmt2f(total_final)] >>]

make_docx_bytes(frame, proj, cli, resp, custos, now) ==
    LET heading == [title  |-> << [titulo |-> proj, cliente |-> OrDash(cli),
                                   responsavel |-> OrDash(resp), data |-> now] >>,
                    header |-> <<>>, rows |-> <<>>, totals |-> <<>>]
        hdr_cells == [i \in 1..Len(frame.columns) |-> frame.columns[i]]
        row_cells(row) == [i \in 1..Len(row) |-> str(row[i])]
        total == IF HasColumn(frame, "Subtotal") THEN ColumnSum(frame, "Subtotal") ELSE Zero
        mao   == GetOr(custos, "mao_obra", Zero)
        imp   == GetOr(custos, "impostos", Zero)
        total_final == Add(Add(total, mao), imp)
    IN  IF ~Empty(frame)
        THEN [heading EXCEPT
                !.header = hdr_cells,
                !.rows   = [r \in 1..Len(frame.rows) |-> row_cells(frame.rows[r])],
                !.totals = << [materiais |-> Fmt2f(total), mao_obra |-> Fmt2f(mao),
                               impostos |-> Fmt2f(imp), total |-> Fmt2f(total_final)] >>]
        ELSE heading

----------------------------------------------------------------------------
(* The form *)

\* options of the "Material" selectbox
Materiais == << "Tinta", "Cimento", "Ladrilhos", "Madeira", "Pregos", "Cola",
                "Canos", "Janelas", "Gesso", "Blocos", "Tijolos", "Areia", "Brita" >>

TiposCola   == << "Hidraulica", "Madeira", "Universal", "PVC" >>
UsosCano    == << "Pia", "Privada", "Esgoto", "Agua fria", "Agua quente", "Pluvial" >>
TiposAreia  == << "Fina", "Media", "Grossa" >>
TiposBrita  == << "No 0", "No 1", "No 2", "No 3" >>

Range(seq) == { seq[i] : i \in 1..Len(seq) }

Pair(key, value) == [k |-> key, v |-> value]

\* every dict "especificacoes" the form can build for a material, the free
\* texts being taken from textos and the window sizes from dims
Especificacoes(mat, textos, dims) ==
    IF mat = "Madeira" THEN
        { << Pair("Medidas (m)", Text(x)) >> : x \in textos }
    ELSE IF mat = "Cola" THEN
        { << Pair("Tipo", Text(x)) >> : x \in Range(TiposCola) }
    ELSE IF mat = "Canos" THEN
        { << Pair("Diametro", Text(x)), Pair("Uso", Text(y)) >> :
            x \in textos, y \in Range(UsosCano) }
    ELSE IF mat = "Janelas" THEN
        { << Pair("Altura (m)", x), Pair("Largura (m)", y) >> : x \in dims, y \in dims }
    ELSE IF mat = "Blocos" THEN
        { << Pair("Medida do bloco (cm)", Text(x)) >> : x \in textos }
    ELSE IF mat = "Tijolos" THEN
        { << Pair("Medida do tijolo (cm)", Text(x)) >> : x \in textos }
    ELSE IF mat = "Areia" THEN
        { << Pair("Tipo de areia", Text(x)) >> : x \in Range(TiposAreia) }
    ELSE IF mat = "Brita" THEN
        { << Pair("Tipo de brita", Text(x)) >> : x \in Range(TiposBrita) }
    ELSE { <<>> }

----------------------------------------------------------------------------
(* Inputs the model draws *)

\* the application: materials, numeric fills of the form, header texts,
\* extra costs and the minutes the clock can show
MateriaisApp == { "Cimento", "Madeira", "Janelas" }
TextosApp    == { "2.5 x 0.1" }
DimsApp      == { Num(12, 10) }
NumerosApp ==
    { [medida |-> Num(50, 1), cobertura |-> Num(25, 1), unidade |-> "saco",
       desperdicio |-> Num(10, 1), preco_unit |-> Num(30, 1)],
      [medida |-> Num(10, 1), cobertura |-> Num(4, 1), unidade |-> "",
       desperdicio |-> Num(5, 1), preco_unit |-> Num(25, 10)] }
Projetos     == { "Casa" }
Clientes     == { "", "Ana" }
Responsaveis == { "" }
MaosDeObra   == { Num(10, 1) }
Impostos     == { Num(5, 1), Num(1254, 10000) }
Minutos      == { 0, 1 }

\* direct calls of calc_qtd_necessaria and add_item
MedidasCalc      == { Zero, Num(1, 1), Num(10, 1), Num(50, 1), Num(24, 10) }
CoberturasCalc   == { Num(-2, 1), Zero, Num(2, 1), Num(3, 1), Num(25, 1), Num(5, 10) }
DesperdiciosCalc == { None, Zero, Num(5, 1), Num(10, 1), Num(20, 1) }
PrecosCalc       == { None, Zero, Num(8, 10), Num(30, 1), Num(1000, 1) }
TextosCalc       == { "", "14x19x39" }
DimsCalc         == { Zero, Num(12, 10) }

----------------------------------------------------------------------------
(* State *)

NoScreen == [success |-> <<>>, dataframe |-> <<>>, totals |-> <<>>, info |-> FALSE]

\* nothing filled in, nothing shown
Quiet ==
    /\ projeto = "" /\ cliente = "" /\ responsavel = ""
    /\ material = "" /\ medida = Zero /\ cobertura = Zero /\ unidade = ""
    /\ desperdicio = Zero /\ preco_unit = Zero /\ especificacoes = <<>>
    /\ clicked = FALSE
    /\ df = EmptyFrame /\ custos_extra = <<>>
    /\ screen = NoScreen /\ downloads = <<>>
    /\ qtd_ret = None

\* a new session: st.session_state has no key yet and the script has not run
Init ==
    /\ session_state = <<>>
    /\ pc = "start"
    /\ Quiet

items == GetItems(session_state)

----------------------------------------------------------------------------
(* One run of the script, statement by statement *)

\* lines 127-169: session initialisation and the widgets of the form
Rerun ==
    /\ pc \in { "start", "done" }
    /\ session_state' = IF "items" \in DOMAIN session_state THEN session_state
                        ELSE [ key \in { "items" } |-> <<>> ]
    /\ projeto' \in Projetos
    /\ cliente' \in Clientes
    /\ responsavel' \in Responsaveis
    /\ material' \in MateriaisApp
    /\ \E f \in NumerosApp :
          /\ medida' = f.medida
          /\ cobertura' = f.cobertura
          /\ unidade' = f.unidade
          /\ desperdicio' = f.desperdicio
          /\ preco_unit' = f.preco_unit
    /\ especificacoes' \in Especificacoes(material', TextosApp, DimsApp)
    /\ clicked' \in IF Len(items) < MaxItems THEN BOOLEAN ELSE { FALSE }
    /\ df' = EmptyFrame
    /\ custos_extra' = <<>>
    /\ screen' = NoScreen
    /\ downloads' = <<>>
    /\ pc' = "button"
    /\ UNCHANGED qtd_ret

\* lines 171-173, button clicked
ClickAdd ==
    /\ pc = "button"
    /\ clicked
    /\ session_state' = add_item(session_state, material, medida, cobertura, unidade,
                                 desperdicio, preco_unit, especificacoes)
    /\ screen' = [screen EXCEPT !.success = << material >>]
    /\ pc' = "resumo"
    /\ UNCHANGED << projeto, cliente, responsavel, material, medida, cobertura,
                    unidade, desperdicio, preco_unit, especificacoes, clicked,
                    df, custos_extra, downloads, qtd_ret >>

\* line 171, button not clicked
NoClick ==
    /\ pc = "button"
    /\ ~clicked
    /\ pc' = "resumo"
    /\ UNCHANGED << session_state, projeto, cliente, responsavel, material, medida,
                    cobertura, unidade, desperdicio, preco_unit, especificacoes,
                    clicked, df, custos_extra, screen, downloads, qtd_ret >>

\* variant: the table is read before the click of this run is processed
Resumo_before_add ==
    /\ pc = "resumo"
    /\ df' = IF clicked
             THEN df_resumo([session_state EXCEPT
                               !["items"] = SubSeq(@, 1, Len(@) - 1)])
             ELSE df_resumo(session_state)
    /\ pc' = "summary"
    /\ UNCHANGED << session_state, projeto, cliente, responsavel, material, medida,
                    cobertura, unidade, desperdicio, preco_unit, especificacoes,
                    clicked, custos_extra, screen, downloads, qtd_ret >>

\* lines 175-176
Resumo ==
    /\ pc = "resumo"
    /\ df' = df_resumo(session_state)
    /\ pc' = "summary"
    /\ UNCHANGED << session_state, projeto, cliente, responsavel, material, medida,
                    cobertura, unidade, desperdicio, preco_unit, especificacoes,
                    clicked, custos_extra, screen, downloads, qtd_ret >>

\* lines 177-194: table, extra costs, totals and the four download buttons;
\* t1 and t2 are the minutes datetime.now() shows in the PDF and DOCX calls
ShowSummary ==
    /\ pc = "summary"
    /\ ~Empty(df)
    /\ \E mao_obra \in MaosDeObra, impostos \in Impostos, t1 \in Minutos, t2 \in Minutos :
          LET custos == << Pair("mao_obra", mao_obra), Pair("impostos", impostos) >>
              total  == IF HasColumn(df, "Subtotal") THEN ColumnSum(df, "Subtotal")
                        ELSE Zero
              total_final == Add(Add(total, mao_obra), impostos)
          IN  /\ t1 <= t2
              /\ custos_extra' = custos
              /\ screen' = [screen EXCEPT
                              !.dataframe = << df >>,
                              !.totals = << [total |-> Fmt2f(total),
                                             total_final |-> Fmt2f(total_final)] >>]
              /\ downloads' =
                   << Pair("orcamento.xlsx", make_excel_bytes(df)),
                      Pair("orcamento.pdf",
                           make_pdf_bytes(df, projeto, cliente, responsavel, custos, t1)),
                      Pair("orcamento.csv", make_csv_bytes(df)),
                      Pair("orcamento.docx",
                           make_docx_bytes(df, projeto, cliente, responsavel, custos, t2)) >>
    /\ pc' = "done"
    /\ UNCHANGED << session_state, projeto, cliente, responsavel, material, medida,
                    cobertura, unidade, desperdicio, preco_unit, especificacoes,
                    clicked, df, qtd_ret >>

\* lines 195-196
ShowInfo ==
    /\ pc = "summary"
    /\ Empty(df)
    /\ screen' = [screen EXCEPT !.info = TRUE]
    /\ pc' = "done"
    /\ UNCHANGED << session_state, projeto, cliente, responsavel, material, medida,
                    cobertura, unidade, desperdicio, preco_unit, especificacoes,
                    clicked, df, custos_extra, downloads, qtd_ret >>

Next == Rerun \/ ClickAdd \/ NoClick \/ Resumo \/ ShowSummary \/ ShowInfo

Spec == Init /\ [][Next]_vars

----------------------------------------------------------------------------
(* Direct calls of calc_qtd_necessaria on drawn arguments *)

InitCalc ==
    /\ session_state = <<>>
    /\ pc = "calc_call"
    /\ medida \in MedidasCalc
    /\ cobertura \in CoberturasCalc
    /\ desperdicio \in DesperdiciosCalc
    /\ projeto = "" /\ cliente = "" /\ responsavel = ""
    /\ material = "" /\ unidade = "" /\ preco_unit = Zero /\ especificacoes = <<>>
    /\ clicked = FALSE /\ df = EmptyFrame /\ custos_extra = <<>>
    /\ screen = NoScreen /\ downloads = <<>> /\ qtd_ret = None

CalcCall ==
    /\ pc = "calc_call"
    /\ qtd_ret' = calc_qtd_necessaria(medida, cobertura, desperdicio)
    /\ pc' = "calc_ret"
    /\ UNCHANGED << session_state, projeto, cliente, responsavel, material, medida,
                    cobertura, unidade, desperdicio, preco_unit, especificacoes,
                    clicked, df, custos_extra, screen, downloads >>

SpecCalc == InitCalc /\ [][CalcCall]_vars

----------------------------------------------------------------------------
(* Direct calls of add_item on drawn arguments, the ledger being empty *)

InitAdd ==
    /\ session_state = [ key \in { "items" } |-> <<>> ]
    /\ pc = "add_call"
    /\ material \in Range(Materiais)
    /\ medida \in MedidasCalc
    /\ cobertura \in CoberturasCalc
    /\ unidade = "un"
    /\ desperdicio \in DesperdiciosCalc
    /\ preco_unit \in PrecosCalc
    /\ especificacoes \in Especificacoes(material, TextosCalc, DimsCalc)
    /\ projeto = "" /\ cliente = "" /\ responsavel = ""
    /\ clicked = FALSE /\ df = EmptyFrame /\ custos_extra = <<>>
    /\ screen = NoScreen /\ downloads = <<>> /\ qtd_ret = None

AddCall ==
    /\ pc = "add_call"
    /\ session_state' = add_item(session_state, material, medida, cobertura, unidade,
                                 desperdicio, preco_unit, especificacoes)
    /\ pc' = "add_ret"
    /\ UNCHANGED << projeto, cliente, responsavel, material, medida, cobertura,
                    unidade, desperdicio, preco_unit, especificacoes, clicked,
                    df, custos_extra, screen, downloads, qtd_ret >>

SpecAdd == InitAdd /\ [][AddCall]_vars

----------------------------------------------------------------------------
(* Direct calls of the four exporters on a drawn table, header and costs *)

\* the dicts add_item can build from the application's inputs
ItensApp ==
    UNION { { NewItem(m, f.medida, f.cobertura, f.unidade, f.desperdicio,
                      f.preco_unit, e) :
                f \in NumerosApp, e \in Especificacoes(m, TextosApp, DimsApp) } :
            m \in MateriaisApp }

RECURSIVE Listas(_, _)
\* the lists of at most n elements of S
Listas(S, n) ==
    IF n = 0 THEN { <<>> }
    ELSE LET shorter == Listas(S, n - 1)
         IN  shorter \cup { Append(l, x) : l \in shorter, x \in S }

\* a table with a header row and no data row
HeaderOnly == [columns |-> << "Material", "Subtotal" >>, rows |-> <<>>]

Frames == { EmptyFrame, HeaderOnly }
            \cup { DataFrame(l) : l \in Listas(ItensApp, MaxItems) \ { <<>> } }

CustosExtra ==
    { <<>>, << Pair("mao_obra", Num(10, 1)), Pair("impostos", Num(5, 1)) >>,
      << Pair("impostos", Num(1254, 10000)) >> }

InitExport ==
    /\ session_state = <<>>
    /\ pc = "excel"
    /\ df \in Frames
    /\ projeto \in Projetos
    /\ cliente \in Clientes
    /\ responsavel \in Responsaveis
    /\ custos_extra \in CustosExtra
    /\ material = "" /\ medida = Zero /\ cobertura = Zero /\ unidade = ""
    /\ desperdicio = Zero /\ preco_unit = Zero /\ especificacoes = <<>>
    /\ clicked = FALSE /\ screen = NoScreen /\ downloads = <<>> /\ qtd_ret = None

ExportKeeps ==
    UNCHANGED << session_state, projeto, cliente, responsavel, material, medida,
                 cobertura, unidade, desperdicio, preco_unit, especificacoes,
                 clicked, df, custos_extra, screen, qtd_ret >>

ExportExcel ==
    /\ pc = "excel"
    /\ downloads' = Append(downloads, Pair("orcamento.xlsx", make_excel_bytes(df)))
    /\ pc' = "pdf"
    /\ ExportKeeps

ExportPdf ==
    /\ pc = "pdf"
    /\ \E now \in Minutos :
          downloads' = Append(downloads, Pair("orcamento.pdf",
              make_pdf_bytes(df, projeto, cliente, responsavel, custos_extra, now)))
    /\ pc' = "csv"
    /\ ExportKeeps

ExportCsv ==
    /\ pc = "csv"
    /\ downloads' = Append(downloads, Pair("orcamento.csv", make_csv_bytes(df)))
    /\ pc' = "docx"
    /\ ExportKeeps

ExportDocx ==
    /\ pc = "docx"
    /\ \E now \in Minutos :
          downloads' = Append(downloads, Pair("orcamento.docx",
              make_docx_bytes(df, projeto, cliente, responsavel, custos_extra, now)))
    /\ pc' = "exported"
    /\ ExportKeeps

NextExport == ExportExcel \/ ExportPdf \/ ExportCsv \/ ExportDocx

SpecExport == InitExport /\ [][NextExport]_vars

----------------------------------------------------------------------------
(* Properties *)

FixedColumns == << "Material", "Medida", "Cobertura por Unidade", "Unidade",
                   "Desperdicio (%)", "Qtd Necessaria", "Preco Unitario", "Subtotal" >>

Files == { "orcamento.xlsx", "orcamento.pdf", "orcamento.csv", "orcamento.docx" }

Download(name) == Get(downloads, name)

\* the cell of row i of a table under the column called name
Cell(header, rows, i, name) ==
    rows[i][CHOOSE j \in 1..Len(header) : header[j] = name]

\* r is a multiple of 10^-k at distance at most 10^-k / 2 from x
Nearest(r, x, k) ==
    /\ r.t = "num" /\ x.t = "num"
    /\ Pow10(k) % r.d = 0
    /\ 2 * Abs(x.n * r.d - r.n * x.d) * Pow10(k) <= x.d * r.d

RECURSIVE SumSubtotals(_)
SumSubtotals(list) ==
    IF list = <<>> THEN Zero
    ELSE Add(Get(Head(list), "Subtotal"), SumSubtotals(Tail(list)))

\* C1: the ledger is append-only.  A step of the application changes the
\* list only when it processes an add click, and then it appends exactly one
\* item built from the form (earlier items stay where and what they were);
\* the table read by df_resumo afterwards has one row per item, in list
\* order, and every field of item i is found unchanged in row i.
C1_Rows ==
    pc \in { "summary", "done" } =>
        /\ Len(df.rows) = Len(items)
        /\ \A i \in 1..Len(items) : \A j \in 1..Len(items[i]) :
              /\ HasColumn(df, items[i][j].k)
              /\ Cell(df.columns, df.rows, i, items[i][j].k) = items[i][j].v

C1_Step ==
    IF pc = "button" /\ clicked
    THEN /\ Len(items') = Len(items) + 1
         /\ SubSeq(items', 1, Len(items)) = items
         /\ LET it == items'[Len(items')]
            IN  /\ Get(it, "Material") = Text(material)
                /\ Get(it, "Medida") = medida
                /\ Get(it, "Cobertura por Unidade") = cobertura
                /\ Get(it, "Unidade") = Text(unidade)
                /\ Get(it, "Desperdicio (%)") = desperdicio
                /\ \A e \in 1..Len(especificacoes) :
                      Get(it, especificacoes[e].k) = especificacoes[e].v
    ELSE items' = items

\* C1: the table always has one row per item, in list order and unchanged,
\* and the list only ever grows by the one item of an add click.
C1_AppendOnly == [] C1_Rows /\ [][C1_Step]_vars

\* two different items were added, and a later run without a click shows both
C1_Witness ==
    /\ pc = "done" /\ ~clicked
    /\ Len(items) = 2 /\ items[1] # items[2]
    /\ Len(df.rows) = 2

\* C2: with a coverage <= 0 calc_qtd_necessaria returns 0.0 (it neither
\* divides nor raises) whatever the measurement and the waste, and add_item
\* still appends exactly one item, of quantity 0 and subtotal 0.
C2_ZeroCoverage ==
    Leq(cobertura, Zero) =>
        /\ calc_qtd_necessaria(medida, cobertura, desperdicio) = Zero
        /\ pc = "add_ret" =>
              /\ Len(items) = 1
              /\ Get(items[1], "Qtd Necessaria") = Zero
              /\ Get(items[1], "Subtotal") = Zero

C2_Witness ==
    /\ pc = "add_ret"
    /\ cobertura = Zero /\ medida = Num(50, 1) /\ preco_unit = Num(30, 1)
    /\ Len(items) = 1

\* C3: with a coverage > 0 the returned quantity is (m / c) * (1 + w / 100),
\* an absent waste counting as 0; (10, 2, 0) gives 5.0 and (10, 2, 10) gives 5.5.
C3_Formula ==
    pc = "calc_ret" /\ ~Leq(cobertura, Zero) =>
        LET w == IF desperdicio = None THEN Zero ELSE desperdicio
        IN  /\ qtd_ret.t = "num"
            /\ qtd_ret.n * (cobertura.n * medida.d * 100 * w.d)
                 = qtd_ret.d * (medida.n * cobertura.d * (100 * w.d + w.n))
            /\ medida = Num(10, 1) /\ cobertura = Num(2, 1) /\ w = Zero
                 => qtd_ret = Num(5, 1)
            /\ medida = Num(10, 1) /\ cobertura = Num(2, 1) /\ w = Num(10, 1)
                 => qtd_ret = Num(55, 10)

C3_Witness ==
    /\ pc = "calc_ret"
    /\ medida = Num(10, 1) /\ cobertura = Num(2, 1) /\ desperdicio = Num(10, 1)
    /\ qtd_ret = Num(55, 10)

\* C4: the appended item has Subtotal = round(Preco Unitario * Qtd Necessaria, 2)
\* with Qtd Necessaria the calculator's result rounded to 3 decimals, the eight
\* fixed fields still being the first eight keys after the extra fields are
\* merged; Cimento, 50, 25, 10 %, 30 gives quantity 2.2 and subtotal 66.0.
C4_Subtotal ==
    pc = "add_ret" =>
        /\ Len(items) = 1
        /\ LET it  == items[1]
               q   == Get(it, "Qtd Necessaria")
               p   == Get(it, "Preco Unitario")
               sub == Get(it, "Subtotal")
               x   == calc_qtd_necessaria(medida, cobertura, desperdicio)
           IN  /\ SubSeq(Keys(it), 1, 8) = FixedColumns
               /\ Len(it) = 8 + Len(especificacoes)
               /\ q = round(x, 3) /\ Nearest(q, x, 3)
               /\ sub = round(Mul(p, q), 2) /\ Nearest(sub, Mul(p, q), 2)
               /\ material = "Cimento" /\ medida = Num(50, 1) /\ cobertura = Num(25, 1)
                    /\ desperdicio = Num(10, 1) /\ preco_unit = Num(30, 1)
                    => q = Num(22, 10) /\ sub = Num(66, 1)

C4_Witness ==
    /\ pc = "add_ret"
    /\ material = "Cimento" /\ medida = Num(50, 1) /\ cobertura = Num(25, 1)
    /\ desperdicio = Num(10, 1) /\ preco_unit = Num(30, 1)
    /\ Get(items[1], "Subtotal") = Num(66, 1)

\* C5: once a run has shown a non-empty ledger, the materials total is the sum
\* of the Subtotal of all ledger rows and the grand total is that sum plus labor
\* cost plus taxes, and the page, the PDF and the DOCX all print these two values.
C5_Totals ==
    pc = "done" /\ items # <<>> =>
        LET mat   == SumSubtotals(items)
            mao   == Get(custos_extra, "mao_obra")
            imp   == Get(custos_extra, "impostos")
            grand == Add(Add(mat, mao), imp)
        IN  /\ screen.totals = << [total |-> Fmt2f(mat), total_final |-> Fmt2f(grand)] >>
            /\ \A f \in { "orcamento.pdf", "orcamento.docx" } :
                  Download(f).totals =
                      << [materiais |-> Fmt2f(mat), mao_obra |-> Fmt2f(mao),
                          impostos |-> Fmt2f(imp), total |-> Fmt2f(grand)] >>

C5_Witness ==
    /\ pc = "done" /\ Len(items) = 2
    /\ Get(custos_extra, "mao_obra") = Num(10, 1)
    /\ Get(custos_extra, "impostos") = Num(5, 1)
    /\ screen.totals = << [total |-> Fmt2f(Num(7256, 100)),
                           total_final |-> Fmt2f(Num(8756, 100))] >>

C8_EmptyTable ==
    Len(df.rows) = 0 =>
        /\ pc \in { "excel", "pdf", "csv", "docx", "exported" }
        /\ Keys(downloads) = SubSeq(<< "orcamento.xlsx", "orcamento.pdf",
                                       "orcamento.csv", "orcamento.docx" >>,
                                    1, Len(downloads))
        /\ pc = "exported" =>
              /\ Keys(downloads) = << "orcamento.xlsx", "orcamento.pdf",
                                      "orcamento.csv", "orcamento.docx" >>
              /\ \A f \in { "orcamento.pdf", "orcamento.docx" } :
                    /\ Len(Download(f).title) = 1
                    /\ Download(f).header = <<>>
                    /\ Download(f).rows = <<>>
                    /\ Download(f).totals = <<>>
              /\ \A f \in { "orcamento.xlsx", "orcamento.csv" } :
                    /\ Download(f).header = df.columns
                    /\ Download(f).rows = <<>>
                    /\ Download(f).title = <<>>
                    /\ Download(f).totals = <<>>

C8_Witness ==
    /\ pc = "exported" /\ df = HeaderOnly
    /\ custos_extra # <<>>
    /\ Len(downloads) = 4

IsBlank(c) == c = Blank \/ c = Text("")

\* C9: the table has the eight fixed columns first, then the extra columns of
\* the collected items; where an item lacks a column the cell is absent in
\* the table and blank in the row every export renders.
C9_Columns ==
    pc = "done" /\ items # <<>> =>
        /\ SubSeq(df.columns, 1, 8) = FixedColumns
        /\ \A j \in 9..Len(df.columns) :
              \E i \in 1..Len(items) : HasKey(items[i], df.columns[j])
        /\ \A i \in 1..Len(items) : \A j \in 1..Len(df.columns) :
              ~HasKey(items[i], df.columns[j]) =>
                  /\ df.rows[i][j] = NaN
                  /\ \A f \in Files : IsBlank(Download(f).rows[i][j])

\* C10: labor cost, taxes, totals and exports exist only in a run whose
\* table, read after the click was processed, is not empty; after a run with
\* an add click every export has the new item as its last row.
C10_Order ==
    /\ custos_extra # <<>> \/ screen.totals # <<>> \/ downloads # <<>> =>
          /\ pc = "done"
          /\ Len(df.rows) > 0 /\ Len(df.rows) = Len(items)
    /\ pc \in { "summary", "done" } /\ clicked =>
          /\ Len(df.rows) = Len(items)
          /\ Cell(df.columns, df.rows, Len(items), "Material") = Text(material)
    /\ pc = "done" /\ clicked =>
          /\ Len(downloads) = 4
          /\ \A f \in Files :
                LET d == Download(f)
                    n == Len(items)
                IN  /\ Len(d.rows) = n
                    /\ Cell(d.header, d.rows, n, "Material") = Text(material)
                    /\ Cell(d.header, d.rows, n, "Medida").n = medida.n
                    /\ Cell(d.header, d.rows, n, "Medida").d = medida.d
                    /\ \A e \in 1..Len(especificacoes) :
                          LET c == Cell(d.header, d.rows, n, especificacoes[e].k)
                          IN  /\ c.n = especificacoes[e].v.n
                              /\ c.d = especificacoes[e].v.d
                              /\ c.s = especificacoes[e].v.s

C10_Witness ==
    /\ pc = "done" /\ clicked
    /\ Len(items) = 2 /\ Get(items[1], "Material") # Get(items[2], "Material")
    /\ Len(downloads) = 4

====
